---- MODULE Spec2Model ----
(***************************************************************************)
(* Model of the advisory file lock of the DeepTutor backend                *)
(* (backend/src/services/file_lock.py): FileLockManager over a shared      *)
(* Redis keyspace.  Every FileLockManager method is one round trip to the  *)
(* store; the store executes SET NX EX, GET and EVAL atomically, and       *)
(* removes a key when its time to live has run out.                        *)
(***************************************************************************)
EXTENDS Integers, FiniteSets, Sequences, TLC

\* ------------------------------------------------------------------ bounds
\* Seconds of wall-clock time that pass in one Tick step.
TickStep == 30

\* Granularity of time for a session that renews its lock on a timer.
HbStep == 10

\* ---------------------------------------------------------------- universe
\* file_path arguments (document paths).
Resources == {"doc/1.md", "doc/2.md"}

\* Request-handling units: authenticated sessions that call the manager.
Callers == {"c1", "c2", "c3"}

\* user_id values; the empty string is one, acquire_lock checks nothing.
UserIds == {"A", "B", ""}

\* user_id of each session: c1 and c3 are two sessions of the same user.
Sessions == [c \in Callers |-> IF c = "c2" THEN "B" ELSE "A"]

\* The same sessions when the user of c1 and c3 has the empty user_id.
SessionsEmptyId == [c \in Callers |-> IF c = "c2" THEN "B" ELSE ""]

\* FileLockManager objects (one per server process), all over one store.
Instances == {"i1", "i2"}

\* The server process, hence the FileLockManager, a session's calls go to.
InstanceOf(c) == IF c = "c3" THEN "i2" ELSE "i1"

\* self.lock_ttl = 60, set by FileLockManager.__init__.
LockTtl == 60

\* Default of extend_lock's ttl parameter.
DefaultTtl == 60

\* ttl arguments passed to extend_lock: extend_lock does not validate ttl.
TtlArgs == {0, DefaultTtl}

\* Reply of GET for a missing key, and Python's None.
RedisNil == "(nil)"
PyNone == "None"

\* No acquire request on its way.
NoCall == ""

NoOne == "none"
NoTtl == 0
Absent == "(no object)"

\* current_user of a guarded endpoint: None (kwargs has no "current_user")
\* or a dict, here a function from its keys to their values.
EmptyDict == [k \in {} |-> ""]
NoUser == [given |-> FALSE, dict |-> EmptyDict]
UserDict(d) == [given |-> TRUE, dict |-> d]

Max(a, b) == IF a >= b THEN a ELSE b

\* The Redis commands a method sends, in order (EVAL runs a whole script).
Commands(op) ==
    IF op = "acquire" THEN <<"SET">>
    ELSE IF op = "get" THEN <<"GET">>
    ELSE IF op \in {"release", "extend"} THEN <<"EVAL">>
    ELSE << >>

VARIABLES
    managers,   \* FileLockManager instances: [Instances -> [lock_ttl]]
    store,      \* Redis keyspace: key -> [value, ttl], ttl = seconds left
    pending,    \* per caller: the resource of its acquire request on the
                \*   way to the store, sent while the resource was unseen
    last,       \* the most recent completed call and what it returned
    free,       \* history, per resource: "never" had an entry, "held"
                \*   since a granted acquire, or how the entry ended:
                \*   "released", "expired", "cut" (extend took it out)
    leases,     \* history, per caller and resource: seconds left of the
                \*   lease the caller was granted (0 = none)
    lapsed,     \* history, per resource: the caller whose lease ran out
                \*   last, until it calls release or extend again, is
                \*   granted again, or the lease that followed has ended
    ids,        \* the user_id each session passes: [Callers -> UserIds]
    hb,         \* the renewing session's timer: phase, interval, seconds
                \*   since the timer last fired, beats missed in a row,
                \*   whether the last delivered beat followed a missed one
    want,       \* the lifetime the session of the last acquire wanted for
                \*   its lock (NoTtl = it asked for none)
    files,      \* the object store's bucket: path -> content, or Absent
    req,        \* the last request to a permission-guarded endpoint: the
                \*   permission, current_user, HTTP status, and whether
                \*   the endpoint function was invoked
    scen,       \* the scripted run: the next call of the script and what
                \*   the calls made so far returned
    dep,        \* dependencies.py in one process: the two module globals,
                \*   the objects constructed, each thread's position in
                \*   its call, and the instances the calls returned
    auth,       \* get_current_user: the decoded token payload of the last
                \*   request and the role it was given
    app         \* main.py: the environment at import, whether EditAgent
                \*   was patched, and what /health last reported

vars == <<managers, store, pending, last, free, leases, lapsed, ids, hb, want,
          files, req, scen, dep, auth, app>>

hist == <<free, leases, lapsed>>

\* What the lock operations leave alone.
aux == <<ids, hb, want, files, req, scen, dep, auth, app>>

\* user_id of the session c.
UserOf(c) == ids[c]

\* ------------------------------------------------------------ the store
\* Variant: one key for every file_path.
LockKey_Flat(file_path) == "file_lock:"

\* lock_key = f"file_lock:{file_path}"
LockKey(file_path) == "file_lock:" \o file_path

Keys == {LockKey(r) : r \in Resources}

Live(s, k) == k \in DOMAIN s

DelKey(s, k) == [x \in (DOMAIN s) \ {k} |-> s[x]]

PutKey(s, k, v, ex) ==
    [x \in (DOMAIN s) \cup {k} |->
        IF x = k THEN [value |-> v, ttl |-> ex] ELSE s[x]]

\* redis.call("get", key)
RedisGet(s, k) == IF Live(s, k) THEN s[k].value ELSE RedisNil

\* Variant: the write without nx=True, which overwrites a live entry.
RedisSetNxEx_NoNx(s, k, v, ex) ==
    [store |-> PutKey(s, k, v, ex), reply |-> TRUE]

\* redis.set(key, value, nx=True, ex=seconds): written only if absent.
RedisSetNxEx(s, k, v, ex) ==
    IF Live(s, k)
    THEN [store |-> s, reply |-> FALSE]
    ELSE [store |-> PutKey(s, k, v, ex), reply |-> TRUE]

\* redis.call("del", key): number of keys removed.
RedisDel(s, k) ==
    IF Live(s, k) THEN [store |-> DelKey(s, k), reply |-> 1]
    ELSE [store |-> s, reply |-> 0]

\* redis.call("expire", key, seconds): 0 if the key is missing; a
\* non-positive timeout deletes the key and still replies 1.
RedisExpire(s, k, seconds) ==
    IF ~Live(s, k) THEN [store |-> s, reply |-> 0]
    ELSE IF seconds <= 0 THEN [store |-> DelKey(s, k), reply |-> 1]
    ELSE [store |-> PutKey(s, k, s[k].value, seconds), reply |-> 1]

\* Variant: the script deletes without comparing the owner.
ReleaseScript_NoCompare(s, k, user_id) == RedisDel(s, k)

\* Variant: the script reports the match and leaves the key in place.
ReleaseScript_NoDel(s, k, user_id) ==
    IF RedisGet(s, k) = user_id THEN [store |-> s, reply |-> 1]
    ELSE [store |-> s, reply |-> 0]

\* Lua script of release_lock (compare, then del), run atomically by EVAL.
ReleaseScript(s, k, user_id) ==
    IF RedisGet(s, k) = user_id THEN RedisDel(s, k)
    ELSE [store |-> s, reply |-> 0]

\* Variant: the script sets the expiry without comparing the owner.
ExtendScript_NoCompare(s, k, user_id, ttl) == RedisExpire(s, k, ttl)

\* Variant: the script reports the match without setting the expiry.
ExtendScript_NoExpire(s, k, user_id, ttl) ==
    IF RedisGet(s, k) = user_id THEN [store |-> s, reply |-> 1]
    ELSE [store |-> s, reply |-> 0]

\* Lua script of extend_lock (compare, then expire), run atomically.
ExtendScript(s, k, user_id, ttl) ==
    IF RedisGet(s, k) = user_id THEN RedisExpire(s, k, ttl)
    ELSE [store |-> s, reply |-> 0]

\* Passage of dt seconds: keys whose time to live has run out are gone.
Expire(s, dt) ==
    [x \in {k \in DOMAIN s : s[k].ttl > dt} |->
        [value |-> s[x].value, ttl |-> s[x].ttl - dt]]

\* ------------------------------------------------------ FileLockManager
\* Variant: the reply of SET is taken for success even when it is None.
acquire_lock_IgnoresReply(self, s, file_path, user_id) ==
    LET res == RedisSetNxEx(s, LockKey(file_path), user_id, self.lock_ttl)
    IN  [store |-> res.store, ret |-> TRUE]

\* Variant: lock_ttl taken for minutes, the expiry being in seconds.
acquire_lock_Minutes(self, s, file_path, user_id) ==
    LET res == RedisSetNxEx(s, LockKey(file_path), user_id, self.lock_ttl * 60)
    IN  [store |-> res.store, ret |-> res.reply]

\* Variant: a re-entrant acquire, which refreshes the holder's own entry.
acquire_lock_Reentrant(self, s, file_path, user_id) ==
    LET k == LockKey(file_path)
        res == IF RedisGet(s, k) = user_id
               THEN [store |-> PutKey(s, k, user_id, self.lock_ttl), reply |-> TRUE]
               ELSE RedisSetNxEx(s, k, user_id, self.lock_ttl)
    IN  [store |-> res.store, ret |-> res.reply]

\* acquire_lock: bool(redis.set(lock_key, user_id, nx=True, ex=lock_ttl))
acquire_lock(self, s, file_path, user_id) ==
    LET res == RedisSetNxEx(s, LockKey(file_path), user_id, self.lock_ttl)
    IN  [store |-> res.store, ret |-> res.reply]

\* Variant: any reply of the script counts as released.
release_lock_AnyReply(self, s, file_path, user_id) ==
    LET res == ReleaseScript(s, LockKey(file_path), user_id)
    IN  [store |-> res.store, ret |-> (res.reply >= 0)]

\* release_lock: result == 1
release_lock(self, s, file_path, user_id) ==
    LET res == ReleaseScript(s, LockKey(file_path), user_id)
    IN  [store |-> res.store, ret |-> (res.reply = 1)]

\* extend_lock: result == 1
extend_lock(self, s, file_path, user_id, ttl) ==
    LET res == ExtendScript(s, LockKey(file_path), user_id, ttl)
    IN  [store |-> res.store, ret |-> (res.reply = 1)]

\* get_lock_owner: owner.decode() if owner else None
get_lock_owner(self, s, file_path) ==
    LET owner == RedisGet(s, LockKey(file_path))
    IN  IF owner # RedisNil /\ owner # "" THEN owner ELSE PyNone

\* ------------------------------------------------------------------ Init
\* Threads of one server process that ask for the dependencies.
Threads == {"t1", "t2"}

\* None for the module globals _redis_client and _file_lock_manager;
\* objects are numbered in the order of their construction.
NoObject == 0

\* dependencies.py after import: both globals None, nothing constructed.
DepInit ==
    [redis_client |-> NoObject, file_lock_manager |-> NoObject,
     clients |-> 0, mgrs |-> 0,
     pc |-> [t \in Threads |-> "idle"],
     from |-> [t \in Threads |-> "top"],
     got_clients |-> {}, got_mgrs |-> {}]

\* No request authenticated yet.
AuthInit == [seen |-> FALSE, payload |-> [k \in {} |-> ""], role |-> ""]

\* An environment variable that is not set: os.getenv returns None.
Unset == "(unset)"

\* main.py not imported yet.
AppInit ==
    [started |-> FALSE, LLM_API_KEY |-> Unset, OPENAI_API_KEY |-> Unset,
     patched |-> FALSE, ran |-> "none", asked |-> FALSE, mock_mode |-> FALSE]

\* Variant: each process configures its manager with a lock_ttl of its own.
InitWith_OwnTtl(sessions) ==
    /\ managers = [i \in Instances |->
                       [lock_ttl |-> IF i = "i1" THEN LockTtl ELSE LockTtl \div 2]]
    /\ store = [k \in {} |-> [value |-> "", ttl |-> 0]]
    /\ pending = [c \in Callers |-> NoCall]
    /\ last = [op |-> "none", r |-> "", user |-> "", fresh |-> FALSE,
               ok |-> FALSE, owner |-> PyNone, again |-> FALSE,
               raised |-> FALSE, trips |-> 0]
    /\ free = [r \in Resources |-> "never"]
    /\ leases = [c \in Callers |-> [r \in Resources |-> 0]]
    /\ lapsed = [r \in Resources |-> NoOne]
    /\ ids = sessions
    /\ hb = [phase |-> "off", interval |-> 0, wait |-> 0, missed |-> 0,
             late |-> FALSE]
    /\ want = NoTtl
    /\ files = [r \in Resources |-> Absent]
    /\ req = [permission |-> "", current_user |-> NoUser, status |-> 0,
              invoked |-> FALSE]
    /\ scen = [pc |-> 1, out |-> << >>]
    /\ dep = DepInit
    /\ auth = AuthInit
    /\ app = AppInit

InitWith(sessions) ==
    /\ managers = [i \in Instances |-> [lock_ttl |-> LockTtl]]
    /\ store = [k \in {} |-> [value |-> "", ttl |-> 0]]
    /\ pending = [c \in Callers |-> NoCall]
    /\ last = [op |-> "none", r |-> "", user |-> "", fresh |-> FALSE,
               ok |-> FALSE, owner |-> PyNone, again |-> FALSE,
               raised |-> FALSE, trips |-> 0]
    /\ free = [r \in Resources |-> "never"]
    /\ leases = [c \in Callers |-> [r \in Resources |-> 0]]
    /\ lapsed = [r \in Resources |-> NoOne]
    /\ ids = sessions
    /\ hb = [phase |-> "off", interval |-> 0, wait |-> 0, missed |-> 0,
             late |-> FALSE]
    /\ want = NoTtl
    /\ files = [r \in Resources |-> Absent]
    /\ req = [permission |-> "", current_user |-> NoUser, status |-> 0,
              invoked |-> FALSE]
    /\ scen = [pc |-> 1, out |-> << >>]
    /\ dep = DepInit
    /\ auth = AuthInit
    /\ app = AppInit

Init == InitWith(Sessions)

\* --------------------------------------------------------------- actions
\* The call returns: ok is the bool of acquire, release and extend, owner
\* the value of get_lock_owner; again tells that the same call, with the
\* same arguments, was the one completed just before (kept for release
\* only); trips counts the commands sent to the store.
Done(op, r, user, fresh, ok, owner) ==
    last' = [op |-> op, r |-> r, user |-> user, fresh |-> fresh, ok |-> ok,
             owner |-> owner,
             again |-> (op = "release" /\ last.op = op /\ last.r = r
                        /\ last.user = user /\ ~last.raised),
             raised |-> FALSE, trips |-> Len(Commands(op))]

\* The step from store s to store t took the entry of r out of the store.
Gone(s, t, r) == Live(s, LockKey(r)) /\ ~Live(t, LockKey(r))

\* A session sends an acquire request for a resource that has never had an
\* entry; the request is on its way until AcquireLock serves it.  (Only
\* for such a resource does the moment of sending matter to a caller.)
Call(c, r) ==
    /\ pending[c] = NoCall
    /\ free[r] = "never"
    /\ pending' = [pending EXCEPT ![c] = r]
    /\ UNCHANGED <<managers, store, last, hist, aux>>

\* Variant: an acquire that waits until the resource is free.
AcquireLock_Waits(c, r) ==
    /\ pending[c] \in {NoCall, r}
    /\ ~Live(store, LockKey(r))
    /\ LET self == managers[InstanceOf(c)]
           res == acquire_lock(self, store, r, UserOf(c))
       IN  /\ store' = res.store
           /\ Done("acquire", r, UserOf(c), pending[c] = r, res.ret, PyNone)
           /\ free' = [free EXCEPT ![r] = "held"]
           /\ leases' = [leases EXCEPT ![c][r] = self.lock_ttl]
           /\ lapsed' = [lapsed EXCEPT ![r] = IF @ = c THEN NoOne ELSE @]
    /\ pending' = [pending EXCEPT ![c] = NoCall]
    /\ UNCHANGED <<managers, aux>>

\* The server process runs acquire_lock for c: either the request that was
\* on its way, or one that is sent and served in this step.
AcquireLock(c, r) ==
    /\ pending[c] \in {NoCall, r}
    /\ LET self == managers[InstanceOf(c)]
           res == acquire_lock(self, store, r, UserOf(c))
       IN  /\ store' = res.store
           /\ Done("acquire", r, UserOf(c), pending[c] = r, res.ret, PyNone)
           /\ free' = [free EXCEPT ![r] = IF res.ret THEN "held" ELSE @]
           /\ leases' = [leases EXCEPT ![c][r] =
                  IF res.ret THEN self.lock_ttl ELSE @]
           /\ lapsed' = [lapsed EXCEPT ![r] =
                  IF res.ret /\ @ = c THEN NoOne ELSE @]
    /\ pending' = [pending EXCEPT ![c] = NoCall]
    /\ UNCHANGED <<managers, aux>>

\* A session calls release_lock: request and store round trip in one step.
ReleaseLock(c, r) ==
    /\ pending[c] = NoCall
    /\ LET self == managers[InstanceOf(c)]
           res == release_lock(self, store, r, UserOf(c))
       IN  /\ store' = res.store
           /\ Done("release", r, UserOf(c), FALSE, res.ret, PyNone)
           /\ free' = [free EXCEPT ![r] = IF res.ret THEN "released" ELSE @]
           /\ leases' = [d \in Callers |->
                  IF res.ret /\ UserOf(d) = UserOf(c)
                  THEN [leases[d] EXCEPT ![r] = 0] ELSE leases[d]]
           /\ lapsed' = [lapsed EXCEPT ![r] =
                  IF @ = c \/ Gone(store, res.store, r) THEN NoOne ELSE @]
    /\ UNCHANGED <<managers, pending, aux>>

\* A session calls extend_lock.
ExtendLock(c, r, ttl) ==
    /\ pending[c] = NoCall
    /\ LET self == managers[InstanceOf(c)]
           res == extend_lock(self, store, r, UserOf(c), ttl)
       IN  /\ store' = res.store
           /\ Done("extend", r, UserOf(c), FALSE, res.ret, PyNone)
           /\ free' = [free EXCEPT ![r] =
                  IF Gone(store, res.store, r) THEN "cut" ELSE @]
           /\ leases' = [d \in Callers |->
                  IF res.ret /\ UserOf(d) = UserOf(c) /\ leases[d][r] > 0
                  THEN [leases[d] EXCEPT ![r] = Max(ttl, 0)] ELSE leases[d]]
           /\ lapsed' = [lapsed EXCEPT ![r] =
                  IF @ = c \/ Gone(store, res.store, r) THEN NoOne ELSE @]
    /\ UNCHANGED <<managers, pending, aux>>

\* A session calls get_lock_owner.
GetLockOwner(c, r) ==
    /\ pending[c] = NoCall
    /\ LET self == managers[InstanceOf(c)]
       IN  Done("get", r, UserOf(c), FALSE, FALSE, get_lock_owner(self, store, r))
    /\ UNCHANGED <<managers, store, pending, hist, aux>>

\* The caller whose lease on r runs out within the next dt seconds.
RunsOut(r, dt) == {c \in Callers : leases[c][r] > 0 /\ leases[c][r] <= dt}

\* TickStep seconds pass; the store drops the keys that ran out of time.
Tick ==
    /\ store' = Expire(store, TickStep)
    /\ free' = [r \in Resources |->
           IF Gone(store, Expire(store, TickStep), r) THEN "expired" ELSE free[r]]
    /\ leases' = [c \in Callers |-> [r \in Resources |->
           Max(leases[c][r] - TickStep, 0)]]
    /\ lapsed' = [r \in Resources |->
           IF RunsOut(r, TickStep) # {}
           THEN CHOOSE c \in RunsOut(r, TickStep) : TRUE
           ELSE IF Gone(store, Expire(store, TickStep), r) THEN NoOne
           ELSE lapsed[r]]
    /\ UNCHANGED <<managers, pending, last, aux>>

Next ==
    \/ \E c \in Callers, r \in Resources : Call(c, r)
    \/ \E c \in Callers, r \in Resources : AcquireLock(c, r)
    \/ \E c \in Callers, r \in Resources : ReleaseLock(c, r)
    \/ \E c \in Callers, r \in Resources, ttl \in TtlArgs : ExtendLock(c, r, ttl)
    \/ \E c \in Callers, r \in Resources : GetLockOwner(c, r)
    \/ Tick

Spec == Init /\ [][Next]_vars

\* ------------------------------------------------------------ heartbeat
\* An editing session that holds a lock and renews it on a timer.
HbHolder == "c1"
HbOther == "c2"
HbResource == "doc/1.md"
HbIntervals == {HbStep * k : k \in 1..4}
MaxMissed == 1

\* The session acquires the lock and, when granted, starts its timer.
HbStart(interval) ==
    /\ hb.phase # "on"
    /\ pending[HbHolder] = NoCall
    /\ LET self == managers[InstanceOf(HbHolder)]
           res == acquire_lock(self, store, HbResource, UserOf(HbHolder))
       IN  /\ store' = res.store
           /\ Done("acquire", HbResource, UserOf(HbHolder), FALSE, res.ret, PyNone)
           /\ free' = [free EXCEPT ![HbResource] = IF res.ret THEN "held" ELSE @]
           /\ leases' = [leases EXCEPT ![HbHolder][HbResource] =
                  IF res.ret THEN self.lock_ttl ELSE @]
           /\ lapsed' = [lapsed EXCEPT ![HbResource] =
                  IF res.ret /\ @ = HbHolder THEN NoOne ELSE @]
           /\ hb' = IF res.ret
                    THEN [phase |-> "on", interval |-> interval, wait |-> 0,
                          missed |-> 0, late |-> FALSE]
                    ELSE hb
    /\ UNCHANGED <<managers, pending, ids, want, files, req, scen, dep, auth, app>>

\* The timer fires and the renewal reaches the store: extend_lock with the
\* lock's ttl.  A renewal that returns False ends the session's hold.
HbBeat ==
    /\ hb.phase = "on"
    /\ hb.wait = hb.interval
    /\ LET self == managers[InstanceOf(HbHolder)]
           res == extend_lock(self, store, HbResource, UserOf(HbHolder), DefaultTtl)
       IN  /\ store' = res.store
           /\ Done("extend", HbResource, UserOf(HbHolder), FALSE, res.ret, PyNone)
           /\ free' = [free EXCEPT ![HbResource] =
                  IF Gone(store, res.store, HbResource) THEN "cut" ELSE @]
           /\ leases' = [d \in Callers |->
                  IF res.ret /\ UserOf(d) = UserOf(HbHolder)
                             /\ leases[d][HbResource] > 0
                  THEN [leases[d] EXCEPT ![HbResource] = Max(DefaultTtl, 0)]
                  ELSE leases[d]]
           /\ lapsed' = [lapsed EXCEPT ![HbResource] =
                  IF @ = HbHolder \/ Gone(store, res.store, HbResource)
                  THEN NoOne ELSE @]
           /\ hb' = [hb EXCEPT !.phase = IF res.ret THEN "on" ELSE "lost",
                               !.wait = 0, !.missed = 0,
                               !.late = (hb.missed > 0)]
    /\ UNCHANGED <<managers, pending, ids, want, files, req, scen, dep, auth, app>>

\* The timer fires and the renewal is missed (it never reaches the store);
\* no more than MaxMissed beats in a row are.
HbMiss ==
    /\ hb.phase = "on"
    /\ hb.wait = hb.interval
    /\ hb.missed < MaxMissed
    /\ hb' = [hb EXCEPT !.wait = 0, !.missed = @ + 1]
    /\ UNCHANGED <<managers, store, pending, last, hist, ids, want, files, req, scen, dep, auth, app>>

\* HbStep seconds pass, never past the moment the timer is due.
HbPasses ==
    /\ hb.phase = "on" => hb.wait + HbStep <= hb.interval
    /\ store' = Expire(store, HbStep)
    /\ free' = [r \in Resources |->
           IF Gone(store, Expire(store, HbStep), r) THEN "expired" ELSE free[r]]
    /\ leases' = [c \in Callers |-> [r \in Resources |->
           Max(leases[c][r] - HbStep, 0)]]
    /\ lapsed' = [r \in Resources |->
           IF RunsOut(r, HbStep) # {}
           THEN CHOOSE c \in RunsOut(r, HbStep) : TRUE
           ELSE IF Gone(store, Expire(store, HbStep), r) THEN NoOne
           ELSE lapsed[r]]
    /\ hb' = IF hb.phase = "on" THEN [hb EXCEPT !.wait = @ + HbStep] ELSE hb
    /\ UNCHANGED <<managers, pending, last, ids, want, files, req, scen, dep, auth, app>>

\* The renewing session, time, and a session of another user that tries
\* every call on the same resources.
NextHeartbeat ==
    \/ \E interval \in HbIntervals : HbStart(interval)
    \/ HbBeat
    \/ HbMiss
    \/ HbPasses
    \/ \E r \in Resources : AcquireLock(HbOther, r)
    \/ \E r \in Resources : ReleaseLock(HbOther, r)
    \/ \E r \in Resources, ttl \in TtlArgs : ExtendLock(HbOther, r, ttl)
    \/ \E r \in Resources : GetLockOwner(HbOther, r)

SpecHeartbeat == Init /\ [][NextHeartbeat]_vars

\* ------------------------------------------------- lifetime at acquire
\* The lifetimes a session may want for its lock, in seconds.
WantedTtls == {NoTtl, 30, 60, 120}

\* A session that wants its lock to live ttl seconds acquires it.  The
\* method is acquire_lock(self, file_path, user_id): it has no parameter
\* for a lifetime, so the call carries file_path and user_id only.
AcquireWanting(c, r, ttl) ==
    /\ pending[c] = NoCall
    /\ LET self == managers[InstanceOf(c)]
           res == acquire_lock(self, store, r, UserOf(c))
       IN  /\ store' = res.store
           /\ Done("acquire", r, UserOf(c), FALSE, res.ret, PyNone)
           /\ free' = [free EXCEPT ![r] = IF res.ret THEN "held" ELSE @]
           /\ leases' = [leases EXCEPT ![c][r] =
                  IF res.ret THEN self.lock_ttl ELSE @]
           /\ lapsed' = [lapsed EXCEPT ![r] =
                  IF res.ret /\ @ = c THEN NoOne ELSE @]
    /\ want' = ttl
    /\ UNCHANGED <<managers, pending, ids, hb, files, req, scen, dep, auth, app>>

NextWanting ==
    \/ \E c \in Callers, r \in Resources, ttl \in WantedTtls :
          AcquireWanting(c, r, ttl)
    \/ \E c \in Callers, r \in Resources : ReleaseLock(c, r)
    \/ \E c \in Callers, r \in Resources : GetLockOwner(c, r)
    \/ Tick

SpecWanting == Init /\ [][NextWanting]_vars

\* ------------------------------------------------------ document files
\* The contents a save request may carry.
Contents == {"A's text", "B's text"}

\* MinIOService.save_file: put_object of the encoded content; returns the
\* number of bytes written.
minio_save_file(f, path, content) ==
    [files |-> [f EXCEPT ![path] = content], size |-> Len(content)]

\* MinIOService.delete_file: remove_object; returns True.
minio_delete_file(f, path) ==
    [files |-> [f EXCEPT ![path] = Absent], ret |-> TRUE]

\* MinIOService.file_exists: stat_object succeeds.
minio_file_exists(f, path) == f[path] # Absent

\* PUT /{bucket}/{path}: the handler takes bucket, path and the request
\* body, and saves the content.
SaveFile(c, r, content) ==
    /\ pending[c] = NoCall
    /\ LET res == minio_save_file(files, r, content)
       IN  /\ files' = res.files
           /\ Done("save", r, "", FALSE, TRUE, PyNone)
    /\ UNCHANGED <<managers, store, pending, hist, ids, hb, want, req, scen, dep, auth, app>>

\* DELETE /{bucket}/{path}: 404 when the file does not exist, else the
\* file is deleted.
DeleteFile(c, r) ==
    /\ pending[c] = NoCall
    /\ IF ~minio_file_exists(files, r)
       THEN /\ files' = files
            /\ Done("delete", r, "", FALSE, FALSE, PyNone)
       ELSE LET res == minio_delete_file(files, r)
            IN  /\ files' = res.files
                /\ Done("delete", r, "", FALSE, res.ret, PyNone)
    /\ UNCHANGED <<managers, store, pending, hist, ids, hb, want, req, scen, dep, auth, app>>

NextFiles ==
    \/ \E c \in Callers, r \in Resources : AcquireLock(c, r)
    \/ \E c \in Callers, r \in Resources : ReleaseLock(c, r)
    \/ \E c \in Callers, r \in Resources, content \in Contents :
          SaveFile(c, r, content)
    \/ \E c \in Callers, r \in Resources : DeleteFile(c, r)
    \/ Tick

SpecFiles == Init /\ [][NextFiles]_vars

\* ---------------------------------------------------------- permissions
\* PERMISSIONS: role -> list of permissions.
PERMISSIONS ==
    [admin  |-> <<"read", "write", "delete", "manage_users">>,
     editor |-> <<"read", "write">>,
     viewer |-> <<"read">>]

PermissionNames == {"read", "write", "delete", "manage_users"}

\* The current_user values a guarded endpoint may be called with.
CurrentUsers ==
    {NoUser, UserDict(EmptyDict), UserDict([id |-> "u1"])}
        \cup {UserDict([id |-> "u1", role |-> ro]) :
                 ro \in {"admin", "editor", "viewer", "guest"}}

\* Python truth value of current_user: None and {} are false.
Truthy(current_user) == current_user.given /\ DOMAIN current_user.dict # {}

\* dict.get(key, default)
DictGet(d, key, default) == IF key \in DOMAIN d THEN d[key] ELSE default

\* permission in list
InList(x, list) == \E i \in 1..Len(list) : list[i] = x

\* Variant: a request without current_user is let through.
require_permission_AllowsMissing(permission, current_user) ==
    IF Truthy(current_user)
    THEN LET user_role == DictGet(current_user.dict, "role", "viewer")
         IN  IF ~InList(permission, DictGet(PERMISSIONS, user_role, << >>))
             THEN 403 ELSE 200
    ELSE 200

\* The wrapper of require_permission(permission): the HTTP status it
\* raises, or 200 when it goes on to call the endpoint function.
require_permission(permission, current_user) ==
    IF Truthy(current_user)
    THEN LET user_role == DictGet(current_user.dict, "role", "viewer")
         IN  IF ~InList(permission, DictGet(PERMISSIONS, user_role, << >>))
             THEN 403 ELSE 200
    ELSE 500

\* A request to an endpoint decorated with require_permission(permission)
\* whose function acquires the lock on r for the session: the function is
\* invoked only when the wrapper raises nothing.
GuardedAcquire(c, r, permission, current_user) ==
    /\ pending[c] = NoCall
    /\ LET status == require_permission(permission, current_user)
           self == managers[InstanceOf(c)]
           res == acquire_lock(self, store, r, UserOf(c))
       IN  /\ req' = [permission |-> permission, current_user |-> current_user,
                      status |-> status, invoked |-> (status = 200)]
           /\ IF status = 200
              THEN /\ store' = res.store
                   /\ Done("acquire", r, UserOf(c), FALSE, res.ret, PyNone)
                   /\ free' = [free EXCEPT ![r] = IF res.ret THEN "held" ELSE @]
                   /\ leases' = [leases EXCEPT ![c][r] =
                          IF res.ret THEN self.lock_ttl ELSE @]
                   /\ lapsed' = [lapsed EXCEPT ![r] =
                          IF res.ret /\ @ = c THEN NoOne ELSE @]
              ELSE UNCHANGED <<store, last, hist>>
    /\ UNCHANGED <<managers, pending, ids, hb, want, files, scen, dep, auth, app>>

\* The document whose lock the guarded endpoint acquires.
GuardedResource == "doc/1.md"

NextPermissions ==
    \/ \E c \in Callers, permission \in PermissionNames,
            current_user \in CurrentUsers :
          GuardedAcquire(c, GuardedResource, permission, current_user)
    \/ \E c \in Callers : ReleaseLock(c, GuardedResource)
    \/ Tick

SpecPermissions == Init /\ [][NextPermissions]_vars

\* ------------------------------------------------------- scripted run
\* Two sessions, of users A and B, call the manager on one document in a
\* fixed order; a third session works on another document meanwhile.
ScenarioResource == "doc/1.md"
OtherResource == "doc/2.md"
SessionA == "c1"
SessionB == "c2"
Bystander == "c3"

Script ==
    << [op |-> "acquire", c |-> SessionA, ttl |-> NoTtl],
       [op |-> "acquire", c |-> SessionB, ttl |-> NoTtl],
       [op |-> "get",     c |-> SessionB, ttl |-> NoTtl],
       [op |-> "extend",  c |-> SessionA, ttl |-> 60],
       [op |-> "extend",  c |-> SessionB, ttl |-> 60],
       [op |-> "release", c |-> SessionA, ttl |-> NoTtl],
       [op |-> "acquire", c |-> SessionB, ttl |-> NoTtl] >>

\* str() of a returned bool.
Str(b) == IF b THEN "True" ELSE "False"

\* The next call of the script is made and returns.
ScenarioStep ==
    /\ scen.pc <= Len(Script)
    /\ LET call == Script[scen.pc]
           c == call.c
           r == ScenarioResource
           self == managers[InstanceOf(c)]
           res == IF call.op = "acquire"
                     THEN acquire_lock(self, store, r, UserOf(c))
                  ELSE IF call.op = "release"
                     THEN release_lock(self, store, r, UserOf(c))
                  ELSE IF call.op = "extend"
                     THEN extend_lock(self, store, r, UserOf(c), call.ttl)
                  ELSE [store |-> store, ret |-> FALSE]
           owner == IF call.op = "get" THEN get_lock_owner(self, store, r)
                    ELSE PyNone
       IN  /\ store' = res.store
           /\ Done(call.op, r, UserOf(c), FALSE, res.ret, owner)
           /\ free' = [free EXCEPT ![r] =
                  IF call.op = "acquire" /\ res.ret THEN "held"
                  ELSE IF call.op = "release" /\ res.ret THEN "released"
                  ELSE IF Gone(store, res.store, r) THEN "cut"
                  ELSE @]
           /\ leases' = [d \in Callers |->
                  IF call.op = "acquire" /\ res.ret /\ d = c
                  THEN [leases[d] EXCEPT ![r] = self.lock_ttl]
                  ELSE IF call.op = "release" /\ res.ret /\ UserOf(d) = UserOf(c)
                  THEN [leases[d] EXCEPT ![r] = 0]
                  ELSE IF call.op = "extend" /\ res.ret /\ UserOf(d) = UserOf(c)
                          /\ leases[d][r] > 0
                  THEN [leases[d] EXCEPT ![r] = Max(call.ttl, 0)]
                  ELSE leases[d]]
           /\ lapsed' = [lapsed EXCEPT ![r] =
                  IF call.op = "acquire" THEN (IF res.ret /\ @ = c THEN NoOne ELSE @)
                  ELSE IF call.op = "get" THEN @
                  ELSE IF @ = c \/ Gone(store, res.store, r) THEN NoOne
                  ELSE @]
           /\ scen' = [pc |-> scen.pc + 1,
                       out |-> Append(scen.out,
                                  IF call.op = "get" THEN owner ELSE Str(res.ret))]
    /\ UNCHANGED <<managers, pending, ids, hb, want, files, req, dep, auth, app>>

\* HbStep seconds pass between two calls, as long as the entry of the
\* script's document does not expire by it.
ScenarioPasses ==
    /\ ~Gone(store, Expire(store, HbStep), ScenarioResource)
    /\ store' = Expire(store, HbStep)
    /\ free' = [r \in Resources |->
           IF Gone(store, Expire(store, HbStep), r) THEN "expired" ELSE free[r]]
    /\ leases' = [c \in Callers |-> [r \in Resources |->
           Max(leases[c][r] - HbStep, 0)]]
    /\ lapsed' = [r \in Resources |->
           IF RunsOut(r, HbStep) # {}
           THEN CHOOSE c \in RunsOut(r, HbStep) : TRUE
           ELSE IF Gone(store, Expire(store, HbStep), r) THEN NoOne
           ELSE lapsed[r]]
    /\ UNCHANGED <<managers, pending, last, aux>>

NextScenario ==
    \/ ScenarioStep
    \/ ScenarioPasses
    \/ AcquireLock(Bystander, OtherResource)
    \/ ReleaseLock(Bystander, OtherResource)
    \/ \E ttl \in TtlArgs : ExtendLock(Bystander, OtherResource, ttl)
    \/ GetLockOwner(Bystander, ScenarioResource)

SpecScenario == Init /\ [][NextScenario]_vars

\* ------------------------------------------------- several processes
\* Two sessions served by different processes, each process with its own
\* FileLockManager (get_file_lock_manager is per process), one store.
ViaFirst == "c2"
ViaSecond == "c3"
Served == {ViaFirst, ViaSecond}

NextInstances ==
    \/ \E c \in Served, r \in Resources : AcquireLock(c, r)
    \/ \E c \in Served, r \in Resources : ReleaseLock(c, r)
    \/ \E c \in Served, r \in Resources, ttl \in TtlArgs : ExtendLock(c, r, ttl)
    \/ \E c \in Served, r \in Resources : GetLockOwner(c, r)
    \/ Tick

SpecInstances == Init /\ [][NextInstances]_vars

\* ------------------------------------------------------- dependencies
\* A thread calls get_file_lock_manager().
CallManager(t) ==
    /\ dep.pc[t] = "idle"
    /\ dep' = [dep EXCEPT !.pc[t] = "m_check"]
    /\ UNCHANGED <<managers, store, pending, last, hist, ids, hb, want, files,
                   req, scen, auth, app>>

\* A thread calls get_redis_client() itself.
CallClient(t) ==
    /\ dep.pc[t] = "idle"
    /\ dep' = [dep EXCEPT !.pc[t] = "r_check", !.from[t] = "top"]
    /\ UNCHANGED <<managers, store, pending, last, hist, ids, hb, want, files,
                   req, scen, auth, app>>

\* if _file_lock_manager is None: client = get_redis_client()
ManagerCheck(t) ==
    /\ dep.pc[t] = "m_check"
    /\ dep' = IF dep.file_lock_manager = NoObject
              THEN [dep EXCEPT !.pc[t] = "r_check", !.from[t] = "mgr"]
              ELSE [dep EXCEPT !.pc[t] = "m_ret"]
    /\ UNCHANGED <<managers, store, pending, last, hist, ids, hb, want, files,
                   req, scen, auth, app>>

\* if _redis_client is None:
ClientCheck(t) ==
    /\ dep.pc[t] = "r_check"
    /\ dep' = [dep EXCEPT !.pc[t] =
                  IF dep.redis_client = NoObject THEN "r_make" ELSE "r_ret"]
    /\ UNCHANGED <<managers, store, pending, last, hist, ids, hb, want, files,
                   req, scen, auth, app>>

\* _redis_client = redis.from_url(redis_url)
ClientMake(t) ==
    /\ dep.pc[t] = "r_make"
    /\ dep' = [dep EXCEPT !.clients = @ + 1, !.redis_client = dep.clients + 1,
                          !.pc[t] = "r_ret"]
    /\ UNCHANGED <<managers, store, pending, last, hist, ids, hb, want, files,
                   req, scen, auth, app>>

\* return _redis_client: to the caller, or into get_file_lock_manager.
ClientReturn(t) ==
    /\ dep.pc[t] = "r_ret"
    /\ dep' = IF dep.from[t] = "mgr"
              THEN [dep EXCEPT !.pc[t] = "m_make", !.from[t] = "top"]
              ELSE [dep EXCEPT !.pc[t] = "idle",
                               !.got_clients = @ \cup {dep.redis_client}]
    /\ UNCHANGED <<managers, store, pending, last, hist, ids, hb, want, files,
                   req, scen, auth, app>>

\* _file_lock_manager = FileLockManager(client)
ManagerMake(t) ==
    /\ dep.pc[t] = "m_make"
    /\ dep' = [dep EXCEPT !.mgrs = @ + 1, !.file_lock_manager = dep.mgrs + 1,
                          !.pc[t] = "m_ret"]
    /\ UNCHANGED <<managers, store, pending, last, hist, ids, hb, want, files,
                   req, scen, auth, app>>

\* return _file_lock_manager
ManagerReturn(t) ==
    /\ dep.pc[t] = "m_ret"
    /\ dep' = [dep EXCEPT !.pc[t] = "idle",
                          !.got_mgrs = @ \cup {dep.file_lock_manager}]
    /\ UNCHANGED <<managers, store, pending, last, hist, ids, hb, want, files,
                   req, scen, auth, app>>

NextDependencies ==
    \E t \in Threads :
        \/ CallManager(t)
        \/ CallClient(t)
        \/ ManagerCheck(t)
        \/ ClientCheck(t)
        \/ ClientMake(t)
        \/ ClientReturn(t)
        \/ ManagerMake(t)
        \/ ManagerReturn(t)

SpecDependencies == Init /\ [][NextDependencies]_vars

\* ------------------------------------------------------ authentication
\* Strings of the token as sequences of characters, so that str.lower()
\* is computed.
W_admin == <<"a", "d", "m", "i", "n">>
W_Admin == <<"A", "d", "m", "i", "n">>
W_ADMIN == <<"A", "D", "M", "I", "N">>
W_editor == <<"e", "d", "i", "t", "o", "r">>
W_EDITOR == <<"E", "D", "I", "T", "O", "R">>
W_viewer == <<"v", "i", "e", "w", "e", "r">>
W_empty == << >>

\* str.lower() on one character and on a string.
LowerChar(ch) ==
    CASE ch = "A" -> "a" [] ch = "D" -> "d" [] ch = "M" -> "m"
      [] ch = "I" -> "i" [] ch = "N" -> "n" [] ch = "E" -> "e"
      [] ch = "T" -> "t" [] ch = "O" -> "o" [] ch = "R" -> "r"
      [] OTHER -> ch
Lower(w) == [i \in 1..Len(w) |-> LowerChar(w[i])]

\* An element of the payload's roles: a string, a dict (whose "name" is a
\* string, null or not there), or a value of another type.
StrItem(w) == [kind |-> "str", name |-> "str", text |-> w]
DictItem(w) == [kind |-> "dict", name |-> "str", text |-> w]
DictNoName == [kind |-> "dict", name |-> "absent", text |-> W_empty]
DictNullName == [kind |-> "dict", name |-> "null", text |-> W_empty]
OtherItem == [kind |-> "other", name |-> "absent", text |-> W_empty]

RoleItems ==
    {StrItem(W_admin), StrItem(W_Admin), StrItem(W_EDITOR), StrItem(W_viewer),
     DictItem(W_ADMIN), DictItem(W_editor), DictNoName, DictNullName, OtherItem}

MaxRoles == 2

\* payload["roles"]: not there, a string instead of a list, or a list.
RolesValues ==
    {[kind |-> "absent", items |-> << >>], [kind |-> "str", items |-> << >>]}
        \cup {[kind |-> "list", items |-> l] :
                 l \in UNION {[1..n -> RoleItems] : n \in 0..MaxRoles}}

\* payload["isAdmin"] and payload["owner"], by the JSON value they hold.
IsAdminValues == {"absent", "false", "true", "\"false\"", "0"}
OwnerValues == {"absent", "built-in", "org"}

Payloads ==
    [isAdmin : IsAdminValues, roles : RolesValues, owner : OwnerValues]

\* Python truth value of payload.get("isAdmin", False).
TruthyJson(v) == v \in {"true", "\"false\""}

\* The loop that fills role_names; a dict whose "name" is null has no
\* lower(), which raises AttributeError.
RECURSIVE RoleNames(_)
RoleNames(items) ==
    IF items = << >> THEN [raised |-> FALSE, names |-> << >>]
    ELSE LET r == Head(items)
             rest == RoleNames(Tail(items))
         IN  IF r.kind = "dict" /\ r.name = "null"
             THEN [raised |-> TRUE, names |-> << >>]
             ELSE IF rest.raised THEN rest
             ELSE IF r.kind \in {"dict", "str"}
             THEN [raised |-> FALSE, names |-> <<Lower(r.text)>> \o rest.names]
             ELSE rest

\* x in role_names
InNames(w, names) == \E i \in 1..Len(names) : names[i] = w

AttributeError == "AttributeError"

\* get_current_user from the decoded payload on: the role of the returned
\* user, or the exception that leaves the function (only JWTError is
\* caught).
get_current_user(payload) ==
    IF TruthyJson(payload.isAdmin) THEN "admin"
    ELSE LET roles == IF payload.roles.kind = "absent"
                      THEN [kind |-> "list", items |-> << >>]
                      ELSE payload.roles
             parsed == IF roles.kind = "list" THEN RoleNames(roles.items)
                       ELSE [raised |-> FALSE, names |-> << >>]
             role_names == parsed.names
         IN  IF parsed.raised THEN AttributeError
             ELSE IF InNames(W_admin, role_names) THEN "admin"
             ELSE IF InNames(W_editor, role_names) THEN "editor"
             ELSE IF role_names = << >> /\ payload.owner = "built-in" THEN "admin"
             ELSE "viewer"

\* A request arrives with a token that decodes to payload (the function
\* keeps nothing between requests, so one request is followed).
Authenticate(payload) ==
    /\ ~auth.seen
    /\ auth' = [seen |-> TRUE, payload |-> payload,
                role |-> get_current_user(payload)]
    /\ UNCHANGED <<managers, store, pending, last, hist, ids, hb, want, files,
                   req, scen, dep, app>>

NextAuth == \E payload \in Payloads : Authenticate(payload)

SpecAuth == Init /\ [][NextAuth]_vars

\* ------------------------------------------------------------ mock mode
\* Values of LLM_API_KEY and OPENAI_API_KEY in the process environment.
EnvValues == {Unset, "", " ", "sk-live", "sk-test"}

\* not os.getenv(name): None and the empty string are false.
NotSet(v) == v = Unset \/ v = ""

\* main.py is imported: with neither key set EditAgent.process and
\* EditAgent.auto_mark are replaced by the mock functions.
Startup(llm, openai) ==
    /\ ~app.started
    /\ app' = [app EXCEPT !.started = TRUE, !.LLM_API_KEY = llm,
                          !.OPENAI_API_KEY = openai,
                          !.patched = (NotSet(llm) /\ NotSet(openai))]
    /\ UNCHANGED <<managers, store, pending, last, hist, ids, hb, want, files,
                   req, scen, dep, auth>>

\* A request runs EditAgent.process: the method the class has now.
Process ==
    /\ app.started
    /\ app' = [app EXCEPT !.ran = IF app.patched THEN "mock_process"
                                  ELSE "process"]
    /\ UNCHANGED <<managers, store, pending, last, hist, ids, hb, want, files,
                   req, scen, dep, auth>>

\* A request runs EditAgent.auto_mark.
AutoMark ==
    /\ app.started
    /\ app' = [app EXCEPT !.ran = IF app.patched THEN "mock_auto_mark"
                                  ELSE "auto_mark"]
    /\ UNCHANGED <<managers, store, pending, last, hist, ids, hb, want, files,
                   req, scen, dep, auth>>

\* GET /health: {"status": "ok", "mock_mode": not os.getenv("LLM_API_KEY")}
HealthCheck ==
    /\ app.started
    /\ app' = [app EXCEPT !.asked = TRUE,
                          !.mock_mode = NotSet(app.LLM_API_KEY)]
    /\ UNCHANGED <<managers, store, pending, last, hist, ids, hb, want, files,
                   req, scen, dep, auth>>

NextApp ==
    \/ \E llm \in EnvValues, openai \in EnvValues : Startup(llm, openai)
    \/ Process
    \/ AutoMark
    \/ HealthCheck

SpecApp == Init /\ [][NextApp]_vars

\* ----------------------------------------- invalid input, store failures
Ops == {"acquire", "release", "extend", "get"}

\* Variant: the method catches the store's exception and returns False.
OnStoreError_Swallowed(op) ==
    [raised |-> FALSE, ok |-> FALSE, owner |-> PyNone,
     trips |-> Len(Commands(op))]

\* What a method does when its one redis call raises (ConnectionError,
\* TimeoutError): no method has a try block and none calls again, so the
\* exception leaves the method and nothing is returned.
OnStoreError(op) ==
    [raised |-> TRUE, ok |-> FALSE, owner |-> PyNone,
     trips |-> Len(Commands(op))]

\* The store cannot be reached when the session c makes the call op on r:
\* the request does not arrive and the store stays as it is.
StoreFails(c, op, r) ==
    /\ pending[c] \in (IF op = "acquire" THEN {NoCall, r} ELSE {NoCall})
    /\ LET out == OnStoreError(op)
       IN  last' = [op |-> op, r |-> r, user |-> UserOf(c), fresh |-> FALSE,
                    ok |-> out.ok, owner |-> out.owner, again |-> FALSE,
                    raised |-> out.raised, trips |-> out.trips]
    /\ pending' = [pending EXCEPT ![c] = NoCall]
    /\ UNCHANGED <<managers, store, hist, aux>>

InitErrors == InitWith(SessionsEmptyId)

NextErrors ==
    \/ Next
    \/ \E c \in Callers, op \in Ops, r \in Resources : StoreFails(c, op, r)

\* The lock manager with sessions of an empty user_id and a store that may
\* be out of reach.
SpecErrors == InitErrors /\ [][NextErrors]_vars

TypeOK ==
    /\ DOMAIN store \subseteq Keys
    /\ \A k \in DOMAIN store : store[k].value \in UserIds /\ store[k].ttl > 0

\* ------------------------------------------------------------- claims
\* No caller has time left on a lease of r it was granted.
NoLeaseLeft(r) == \A c \in Callers : leases[c][r] = 0

\* C1 as stated: of the acquire calls sent while the resource had never had
\* an entry, exactly one returns True and every other returns False; that
\* is, the call served while the resource has still never had an entry
\* returns True and each one served later returns False.
C1_ExactlyOneFreshGrant ==
    [][\A c \in Callers, r \in Resources :
          (AcquireLock(c, r) /\ pending[c] = r)
              => (last'.ok <=> (free[r] = "never"))]_vars

\* C1 amended: of the acquire calls sent while the resource had never had an
\* entry, the first one served returns True, and every other one returns
\* False provided it is served while the granted entry is still in the
\* store (neither released nor expired).
C1_OneFreshGrantWhileHeld ==
    [][\A c \in Callers, r \in Resources :
          (AcquireLock(c, r) /\ pending[c] = r)
              => /\ (free[r] = "never") => last'.ok
                 /\ (free[r] = "held") => ~last'.ok]_vars

\* Two concurrent first acquires were served: this one was refused while
\* the entry granted to the other is in the store.
C1_Witness ==
    /\ last.op = "acquire" /\ last.fresh /\ ~last.ok
    /\ free[last.r] = "held"
    /\ Live(store, LockKey(last.r))

\* C2: for every resource, the callers that were granted an acquire and
\* whose lease has neither been released nor run out never include two
\* different owners, and the store's entry names that owner.
C2_AtMostOneOwner ==
    \A r \in Resources : \A c \in Callers :
        leases[c][r] > 0 =>
            /\ RedisGet(store, LockKey(r)) = UserOf(c)
            /\ \A d \in Callers : leases[d][r] > 0 => UserOf(d) = UserOf(c)

\* A lease is running and an acquire of another owner has just been refused.
C2_Witness ==
    /\ last.op = "acquire" /\ ~last.ok
    /\ \E c \in Callers :
          leases[c][last.r] > 0 /\ UserOf(c) # last.user

\* C3: release_lock by X takes an entry out of the store only if it is the
\* entry of the named resource and its owner is X in that very step; when
\* the entry is absent or owned by someone else the call returns False and
\* the store (owner and TTL of every entry) is unchanged.
C3_ReleaseOnlyOwn ==
    [][\A c \in Callers, r \in Resources :
          ReleaseLock(c, r) =>
              /\ RedisGet(store, LockKey(r)) # UserOf(c)
                    => (~last'.ok /\ store' = store)
              /\ \A k \in DOMAIN store :
                    k \notin DOMAIN store'
                        => (k = LockKey(r) /\ store[k].value = UserOf(c))
              /\ \A k \in DOMAIN store' :
                    k \in DOMAIN store /\ store'[k] = store[k]]_vars

\* A release by a caller who is not the owner was refused and the other
\* owner's entry is still in the store.
C3_Witness ==
    /\ last.op = "release" /\ ~last.ok
    /\ Live(store, LockKey(last.r))
    /\ store[LockKey(last.r)].value # last.user

\* C4: extend_lock on a resource whose lock is held by a different owner, or
\* by nobody, returns False, changes no entry and creates none.
C4_ExtendRefused ==
    [][\A c \in Callers, r \in Resources, ttl \in TtlArgs :
          (ExtendLock(c, r, ttl) /\ RedisGet(store, LockKey(r)) # UserOf(c))
              => (~last'.ok /\ store' = store)]_vars

\* An extend by a caller who is not the owner was refused; the owner's
\* entry is in the store with part of its time used up.
C4_Witness ==
    /\ last.op = "extend" /\ ~last.ok
    /\ Live(store, LockKey(last.r))
    /\ store[LockKey(last.r)].value # last.user
    /\ store[LockKey(last.r)].ttl < LockTtl

\* C5 as stated: whenever extend_lock returns True, for every ttl it
\* accepts, the resource is locked by that owner right after the call and
\* its remaining lifetime is ttl.
C5_ExtendResetsTtl ==
    [][\A c \in Callers, r \in Resources, ttl \in TtlArgs :
          (ExtendLock(c, r, ttl) /\ last'.ok)
              => /\ Live(store', LockKey(r))
                 /\ store'[LockKey(r)] = [value |-> UserOf(c), ttl |-> ttl]]_vars

\* C6: the owner of a live entry never changes in one step: between an
\* entry of A and an entry of B the store has no entry for the resource.
C6_NoDirectTransfer ==
    [][\A k \in Keys :
          (Live(store, k) /\ Live(store', k))
              => store'[k].value = store[k].value]_vars

\* The lease of one user ran out and the resource is now locked by another.
C6_Witness ==
    \E r \in Resources :
        /\ lapsed[r] # NoOne
        /\ Live(store, LockKey(r))
        /\ store[LockKey(r)].value # UserOf(lapsed[r])

\* C7: after release_lock returned True (and until the next granted
\* acquire), get_lock_owner returns None and acquire_lock returns True for
\* any owner.
C7_AfterRelease ==
    [][\A c \in Callers, r \in Resources :
          free[r] = "released" =>
              /\ GetLockOwner(c, r) => last'.owner = PyNone
              /\ AcquireLock(c, r) => last'.ok]_vars

\* get_lock_owner has just been called on a released resource.
C7_Witness ==
    /\ last.op = "get" /\ last.owner = PyNone
    /\ free[last.r] = "released"

\* C8: once the time to live of every lease granted on a resource has run
\* out since the grant or the last successful extend, get_lock_owner
\* returns None and an acquire by any caller returns True.
C8_UnrenewedLockFreed ==
    [][\A c \in Callers, r \in Resources :
          (free[r] # "never" /\ NoLeaseLeft(r)) =>
              /\ GetLockOwner(c, r) => last'.owner = PyNone
              /\ AcquireLock(c, r) => last'.ok]_vars

\* Another user has just acquired a resource whose earlier lease ran out.
C8_Witness ==
    /\ last.op = "acquire" /\ last.ok
    /\ lapsed[last.r] # NoOne
    /\ UserOf(lapsed[last.r]) # last.user
    /\ leases[lapsed[last.r]][last.r] = 0

\* C9: acquire_lock on a resource that has a live entry returns False, for
\* the holder as for anyone else, and leaves owner and TTL unchanged.
C9_AcquireOnLive ==
    [][\A c \in Callers, r \in Resources :
          (AcquireLock(c, r) /\ Live(store, LockKey(r)))
              => (~last'.ok /\ store' = store)]_vars

\* The holder's own second acquire was refused and its entry kept the time
\* it had left.
C9_Witness ==
    /\ last.op = "acquire" /\ ~last.ok
    /\ Live(store, LockKey(last.r))
    /\ store[LockKey(last.r)].value = last.user
    /\ store[LockKey(last.r)].ttl < LockTtl

\* C11: when release_lock is called twice in a row with the same
\* arguments, the second call returns False and leaves the store as it was.
C11_SecondReleaseNoOp ==
    [][\A c \in Callers, r \in Resources :
          (ReleaseLock(c, r) /\ last.op = "release" /\ last.r = r
              /\ last.user = UserOf(c) /\ ~last.raised)
              => (~last'.ok /\ ~last'.raised /\ store' = store)]_vars

\* The owner has just released a second time what its first release freed.
C11_Witness ==
    /\ last.op = "release" /\ last.again /\ ~last.ok
    /\ free[last.r] = "released"
    /\ ~Live(store, LockKey(last.r))

\* C12 as stated: a call with an empty owner_id or a non-positive ttl is
\* rejected before any store call: it changes nothing in the store and
\* does not return True.
C12_InvalidInputRejected ==
    [][\A c \in Callers, r \in Resources :
          /\ UserOf(c) = "" =>
                /\ AcquireLock(c, r) => (store' = store /\ ~last'.ok)
                /\ ReleaseLock(c, r) => (store' = store /\ ~last'.ok)
          /\ \A ttl \in TtlArgs :
                (ExtendLock(c, r, ttl) /\ (ttl <= 0 \/ UserOf(c) = ""))
                    => (store' = store /\ ~last'.ok)]_vars

HbHolds ==
    /\ hb.phase = "on"
    /\ RedisGet(store, LockKey(HbResource)) = UserOf(HbHolder)

\* C14 as stated: with renewals every interval <= ttl/2 and at most one
\* missed in a row, the lock never expires between renewals and every
\* delivered renew returns True, up to and including interval = ttl/2.
C14_HeartbeatKeepsLock ==
    (hb.phase # "off" /\ 2 * hb.interval <= LockTtl) => HbHolds

\* C14 amended: the same for every interval strictly below ttl/2.
C14_HeartbeatBelowHalf ==
    (hb.phase # "off" /\ 2 * hb.interval < LockTtl) => HbHolds

\* A renewal delivered two intervals after the previous one, the beat in
\* between missed, has returned True.
C14_Witness ==
    /\ hb.phase = "on" /\ hb.late /\ hb.wait = 0
    /\ hb.interval = 2 * HbStep /\ 2 * hb.interval < LockTtl
    /\ last.op = "extend" /\ last.ok /\ last.user = UserOf(HbHolder)
    /\ store[LockKey(HbResource)].ttl = DefaultTtl

C16_WriteOnlyByLockOwner ==
    [][\A c \in Callers, r \in Resources :
          /\ \A content \in Contents :
                (SaveFile(c, r, content) /\ files' # files)
                    => RedisGet(store, LockKey(r)) = UserOf(c)
          /\ (DeleteFile(c, r) /\ files' # files)
                    => RedisGet(store, LockKey(r)) = UserOf(c)]_vars

\* The role the permission table is read for: the "role" of current_user,
\* viewer when it has none.
RoleOf(current_user) ==
    IF "role" \in DOMAIN current_user.dict THEN current_user.dict.role
    ELSE "viewer"

\* The permissions the table grants the role; none for an unknown role.
Granted(ro) ==
    IF ro = "admin" THEN {"read", "write", "delete", "manage_users"}
    ELSE IF ro = "editor" THEN {"read", "write"}
    ELSE IF ro = "viewer" THEN {"read"}
    ELSE {}

\* C19: the guarded function is invoked only for a supplied current_user
\* whose role (viewer when missing, nothing for an unknown role) is granted
\* the permission; every other request is refused without the function
\* being invoked, with 403 when current_user is there and 500 when it is
\* not; a viewer is never let through for write or delete.
C19_GuardedOnlyWhenPermitted ==
    req.status # 0 =>
        LET u == req.current_user
            supplied == u.given /\ DOMAIN u.dict # {}
            permitted == supplied /\ req.permission \in Granted(RoleOf(u))
        IN  /\ req.invoked => permitted
            /\ ~permitted => /\ ~req.invoked
                             /\ req.status = IF supplied THEN 403 ELSE 500
            /\ (supplied /\ RoleOf(u) = "viewer"
                    /\ req.permission \in {"write", "delete"}) => ~req.invoked

\* A viewer's request for write has been refused with 403 while the
\* resource stays unlocked.
C19_Witness ==
    /\ req.status = 403 /\ ~req.invoked
    /\ req.permission = "write"
    /\ req.current_user.given
    /\ RoleOf(req.current_user) = "viewer"
    /\ ~Live(store, LockKey(GuardedResource))
    /\ free[GuardedResource] = "never"

\* What the calls of the script are to return, in order.
Expected == <<"True", "False", "A", "True", "False", "True", "True">>

\* C17: run from the unlocked document without any expiry in between, the
\* calls A.acquire, B.acquire, get_owner, A.renew, B.renew, A.release,
\* B.acquire return true, false, "A", true, false, true, true in order.
C17_Scenario ==
    /\ Len(scen.out) <= Len(Expected)
    /\ \A i \in 1..Len(scen.out) : scen.out[i] = Expected[i]

\* The script has run to its end, time having passed on the way, and B
\* holds the document.
C17_Witness ==
    /\ scen.pc = Len(Script) + 1 /\ Len(scen.out) = 7
    /\ RedisGet(store, LockKey(ScenarioResource)) = "B"
    /\ store[LockKey(ScenarioResource)].ttl < LockTtl

\* C18 as stated: get_lock_owner returns the stored owner_id whenever a live
\* entry exists, None exactly when none exists, and changes no entry.
C18_GetOwnerReadsEntry ==
    [][\A c \in Callers, r \in Resources :
          GetLockOwner(c, r) =>
              /\ store' = store
              /\ last'.owner = IF Live(store, LockKey(r))
                               THEN store[LockKey(r)].value ELSE PyNone
              /\ (last'.owner = PyNone) <=> ~Live(store, LockKey(r))]_vars

\* C20: every completed call has sent exactly one command to the store,
\* also when the store failed it, and no call waits: whatever the store
\* holds, each of the four calls of a session can be served at once.
C20_OneTripNoWait ==
    /\ last.op \in Ops => last.trips = 1
    /\ \A c \in Callers, r \in Resources :
          /\ pending[c] \in {NoCall, r} => ENABLED AcquireLock(c, r)
          /\ pending[c] = NoCall =>
                /\ ENABLED ReleaseLock(c, r)
                /\ ENABLED GetLockOwner(c, r)
                /\ \A ttl \in TtlArgs : ENABLED ExtendLock(c, r, ttl)

\* An acquire on a resource another user holds has just returned False, in
\* one trip, and the holder's entry is still there.
C20_Witness ==
    /\ last.op = "acquire" /\ ~last.ok /\ ~last.raised /\ last.trips = 1
    /\ Live(store, LockKey(last.r))
    /\ store[LockKey(last.r)].value # last.user

\* The store cut down to the entry of the resource r.
OnlyEntry(s, r) == [k \in (DOMAIN s) \cap {LockKey(r)} |-> s[k]]

\* The one manager of a system that has a single instance.
SingleInstance == managers["i1"]

\* C21: whichever instance serves a call, its result and its effect on the
\* resource's entry are those the single instance computes from that entry
\* and the call's arguments alone, and no call changes a manager.
C21_InstancesInterchangeable ==
    [][\A c \in Served, r \in Resources :
          /\ AcquireLock(c, r) =>
                LET one == acquire_lock(SingleInstance, OnlyEntry(store, r), r, UserOf(c))
                IN  /\ last'.ok = one.ret
                    /\ OnlyEntry(store', r) = one.store
                    /\ managers' = managers
          /\ ReleaseLock(c, r) =>
                LET one == release_lock(SingleInstance, OnlyEntry(store, r), r, UserOf(c))
                IN  /\ last'.ok = one.ret
                    /\ OnlyEntry(store', r) = one.store
                    /\ managers' = managers
          /\ \A ttl \in TtlArgs : ExtendLock(c, r, ttl) =>
                LET one == extend_lock(SingleInstance, OnlyEntry(store, r), r, UserOf(c), ttl)
                IN  /\ last'.ok = one.ret
                    /\ OnlyEntry(store', r) = one.store
                    /\ managers' = managers
          /\ GetLockOwner(c, r) =>
                /\ last'.owner = get_lock_owner(SingleInstance, OnlyEntry(store, r), r)
                /\ store' = store
                /\ managers' = managers]_vars

\* An acquire served by the second process has been refused because of the
\* entry written through the first, while another resource is locked too.
C21_Witness ==
    /\ last.op = "acquire" /\ ~last.ok /\ last.user = UserOf(ViaSecond)
    /\ RedisGet(store, LockKey(last.r)) = UserOf(ViaFirst)
    /\ \E r \in Resources : r # last.r /\ Live(store, LockKey(r))

\* The entry of r as a call may change it: owner and time to live.
EntryOf(s, r) ==
    IF Live(s, LockKey(r)) THEN s[LockKey(r)]
    ELSE [value |-> RedisNil, ttl |-> 0]

\* Resource ids as callers may supply them, to probe the key function.
ProbeIds == Resources \cup {"", "doc/1.md ", "doc", "doc/", "file_lock:doc/1.md"}

\* C22: a call on r1 leaves owner and TTL of every other resource
\* unchanged, and distinct resource ids have distinct keys, each
\* "file_lock:" followed by the id.
C22_OtherResourcesUntouched ==
    [][/\ \A x, y \in ProbeIds : x # y => LockKey(x) # LockKey(y)
       /\ \A x \in ProbeIds : LockKey(x) = "file_lock:" \o x
       /\ \A c \in Served, r1 \in Resources :
             (\/ AcquireLock(c, r1) \/ ReleaseLock(c, r1) \/ GetLockOwner(c, r1)
              \/ \E ttl \in TtlArgs : ExtendLock(c, r1, ttl))
                 => \A r2 \in Resources \ {r1} :
                        EntryOf(store', r2) = EntryOf(store, r2)]_vars

\* A release has deleted the entry of one resource while the entry of the
\* other, held by another user, is still there.
C22_Witness ==
    /\ last.op = "release" /\ last.ok /\ ~Live(store, LockKey(last.r))
    /\ \E r \in Resources :
          /\ r # last.r /\ Live(store, LockKey(r))
          /\ store[LockKey(r)].value # last.user

\* C23 as stated: over every interleaving of the threads' calls at most
\* one store client and at most one FileLockManager are constructed, and
\* every call returns that same instance.
C23_OneInstanceEach ==
    /\ dep.clients <= 1
    /\ dep.mgrs <= 1
    /\ Cardinality(dep.got_clients) <= 1
    /\ Cardinality(dep.got_mgrs) <= 1

\* The roles list has an element, string or dict, named by one of the
\* spellings.
ContainsNamed(payload, spellings) ==
    /\ payload.roles.kind = "list"
    /\ \E i \in 1..Len(payload.roles.items) :
          LET r == payload.roles.items[i]
          IN  r.kind \in {"dict", "str"} /\ r.name = "str" /\ r.text \in spellings

\* The roles list yields no role names: there is no list, or none of its
\* elements is a string or a dict.
YieldsNoNames(payload) ==
    \/ payload.roles.kind # "list"
    \/ \A i \in 1..Len(payload.roles.items) :
          payload.roles.items[i].kind = "other"

\* The role the claim gives a payload.
ClaimedRole(payload) ==
    IF \/ TruthyJson(payload.isAdmin)
       \/ ContainsNamed(payload, {W_admin, W_Admin, W_ADMIN})
       \/ YieldsNoNames(payload) /\ payload.owner = "built-in"
    THEN "admin"
    ELSE IF ContainsNamed(payload, {W_editor, W_EDITOR}) THEN "editor"
    ELSE "viewer"

\* C24 as stated: the role is admin exactly when isAdmin is truthy, the
\* roles list has a role named admin in any case, or the list yields no
\* names and owner is built-in; else editor exactly when the list has
\* editor; else viewer; and it is always one of the three.
C24_RoleAssignment ==
    auth.seen =>
        /\ auth.role = ClaimedRole(auth.payload)
        /\ auth.role \in {"admin", "editor", "viewer"}

\* C25 as stated: the mock_mode that /health returns is true exactly when
\* the process replaced EditAgent.process and EditAgent.auto_mark at
\* startup, whichever of the two keys are set.
C25_MockModeMatchesPatch ==
    app.asked => (app.mock_mode <=> app.patched)

\* C10 as stated: a release or extend by a caller whose lease on r has run
\* out never changes a later lease on r started by a new acquisition,
\* whichever owner_id holds it.
C10_ExpiryIsTerminal ==
    [][\A c \in Callers, r \in Resources :
          (lapsed[r] = c /\ Live(store, LockKey(r)))
              => /\ ReleaseLock(c, r) => store' = store
                 /\ \A ttl \in TtlArgs : ExtendLock(c, r, ttl) => store' = store]_vars

====
